---- MODULE Spec2Model ----
(***************************************************************************)
(* Client / ClientInner of scupt-net (src/client.rs): one mutex-guarded    *)
(* optional Endpoint reference shared by the clones of a Client handle,    *)
(* the retry loop of connect, and send / recv / is_connected.              *)
(*                                                                         *)
(* Every caller is a task holding a clone of the handle.  An action is the *)
(* code a task runs from one suspension point (.await) to the next: the    *)
(* mutex acquisition, the Connector dial, the retry sleep and the          *)
(* Endpoint's own send / recv.                                             *)
(***************************************************************************)
EXTENDS Integers, FiniteSets, Sequences, TLC

\* The argument and the locals of a call (retry_max, n, opt_ep, e, m) are dropped
\* when the call returns; which call it was (op), how its loop ended (r), the
\* dials it made (dials) and its result (ret) stay until the caller calls again.

\* ---- bounds of the model ----
NumCallers == 2          \* tasks holding a clone of the Client
MaxRetry == 2            \* largest retry_max a caller passes
MaxEndpoints == 2        \* Endpoints the Connector hands out in one run
MaxDials == MaxRetry + 1 \* dial attempts followed within one unbounded connect

\* ---- values of the program ----
NoEndpoint == 0          \* Option::None of an Endpoint reference
NoHolder == 0            \* the mutex is unlocked
RetryForever == 0        \* retry_max = 0: no retry budget

Callers == 1..NumCallers
Endpoints == 1..MaxEndpoints
DialResults == {"Err", "OkSome", "OkNone"}   \* Res<Option<Arc<dyn EndpointAsync>>>
EndpointResults == {"Ok", "TransportErr"}    \* result of the Endpoint's send / recv
ConnectPcs == {"c_dial", "c_sleep", "c_lock", "c_cs"}
CriticalPcs == {"c_cs", "s_cs", "s_op", "s_ret", "r_cs", "r_op", "r_ret", "i_cs"}
EndpointOpPcs == {"s_op", "r_op"}

VARIABLES
    addr_ok,    \* SocketAddr::from_str(self.addr) parses
    slot,       \* opt_endpoint: the value inside the Mutex
    lock,       \* the caller holding the MutexGuard of opt_endpoint, or NoHolder
    nextEp,     \* the Endpoint the Connector's next successful dial returns
    overlap,    \* history: two connect calls were in progress at the same time
    pc,         \* pc[p]: the suspension point caller p is at
    op,         \* op[p]: the operation p runs, or ran last
    retry_max,  \* opt.retry_max of p's connect
    n,          \* the local n of p's connect
    opt_ep,     \* the local opt_ep of p's connect
    r,          \* the local r of p's connect: the last dial's result
    dials,      \* history: dials issued by p's connect
    fails,      \* history: dials of p's connect that returned Err
    e,          \* the local e of p's send / recv: the reference read from the slot
    m,          \* what the Endpoint's send / recv handed back to p's pending `?`
    ret         \* the value p's operation returned

vars == <<addr_ok, slot, lock, nextEp, overlap, pc, op, retry_max, n, opt_ep, r,
          dials, fails, e, m, ret>>

shared == <<addr_ok, slot, lock, nextEp, overlap>>
connLocals == <<retry_max, n, opt_ep, r, dials, fails>>

\* ---- ClientInner::new ----
Init ==
    /\ addr_ok \in BOOLEAN
    /\ slot = NoEndpoint
    /\ lock = NoHolder
    /\ nextEp = 1
    /\ overlap = FALSE
    /\ pc = [p \in Callers |-> "idle"]
    /\ op = [p \in Callers |-> "none"]
    /\ retry_max = [p \in Callers |-> 0]
    /\ n = [p \in Callers |-> 0]
    /\ opt_ep = [p \in Callers |-> NoEndpoint]
    /\ r = [p \in Callers |-> "none"]
    /\ dials = [p \in Callers |-> 0]
    /\ fails = [p \in Callers |-> 0]
    /\ e = [p \in Callers |-> NoEndpoint]
    /\ m = [p \in Callers |-> "none"]
    /\ ret = [p \in Callers |-> "none"]

\* ---- pieces of ClientInner::connect ----

\* bug: the loop test is `n > 1`, one attempt short of the budget
WhileCondOneShort(rm, k) == rm = RetryForever \/ k > 1

\* bug: the loop test forgets `opt.retry_max == 0`
WhileCondNoForever(rm, k) == k > 0

\* while opt.retry_max == 0 || n > 0
WhileCond(rm, k) == rm = RetryForever \/ k > 0

\* bug: the budget is never counted down
DecrementStuck(k) == k

\* if n > 0 { n -= 1; }
Decrement(k) == IF k > 0 THEN k - 1 ELSE k

\* bug: only Ok(None) leaves the loop; Ok(Some(e)) is retried like a failure
BreaksLoopOnlyNone(res) == res = "OkNone"

\* bug: Ok(None) is taken for a failed dial and retried
BreaksLoopOnlySome(res) == res = "OkSome"

\* if let Ok(e) = r { opt_ep = e; break; }
BreaksLoop(res) == res \in {"OkSome", "OkNone"}

\* bug: `*guard = opt_ep` is done whatever the loop produced
NeedsWriteAlways(oe) == TRUE

\* if let Some(e) = opt_ep { lock; write } ; Ok(())
NeedsWrite(oe) == oe # NoEndpoint

\* bug: the write only fills an empty slot
WrittenKeepsFirst(old, oe) == IF old = NoEndpoint THEN oe ELSE old

\* bug: the write keeps the Endpoint of the later dial
WrittenNewest(old, oe) == IF oe > old THEN oe ELSE old

\* *guard = Some(e)
Written(old, oe) == oe

\* bug: the last dial's error is returned
ConnectResultStrict(res) == IF res = "Err" THEN "DialErr" ELSE "Ok"

\* Ok(()) at the end of connect
ConnectResult(res) == "Ok"

\* bug: the slot is not guarded
LockAvailableAlways(l) == TRUE

\* self.opt_endpoint.lock().await completes
LockAvailable(l) == l = NoHolder

\* where connect goes after the loop
ExitPc(oe) == IF NeedsWrite(oe) THEN "c_lock" ELSE "idle"

\* bug: the dial is issued whether or not the address parses
LoopPcNoUnwrap(rm, k, oe) == IF WhileCond(rm, k) THEN "c_dial" ELSE ExitPc(oe)

\* the loop head: the test, the address parse (unwrap) and the dial
LoopPc(rm, k, oe) ==
    IF WhileCond(rm, k)
    THEN IF addr_ok THEN "c_dial" ELSE "panicked"
    ELSE ExitPc(oe)

ResetLocals(p) ==
    /\ retry_max' = [retry_max EXCEPT ![p] = 0]
    /\ n' = [n EXCEPT ![p] = 0]
    /\ opt_ep' = [opt_ep EXCEPT ![p] = NoEndpoint]
    /\ r' = [r EXCEPT ![p] = "none"]
    /\ dials' = [dials EXCEPT ![p] = 0]
    /\ fails' = [fails EXCEPT ![p] = 0]
    /\ e' = [e EXCEPT ![p] = NoEndpoint]
    /\ m' = [m EXCEPT ![p] = "none"]

\* connect goes on to `next` with n = k, opt_ep = oe and f failed dials; at
\* "idle" it has returned ConnectResult, its argument and locals are dropped
ConnectGoes(p, next, rm, k, oe, f, res) ==
    LET back == next = "idle" IN
    /\ pc' = [pc EXCEPT ![p] = next]
    /\ retry_max' = [retry_max EXCEPT ![p] = IF back THEN 0 ELSE rm]
    /\ n' = [n EXCEPT ![p] = IF back THEN 0 ELSE k]
    /\ opt_ep' = [opt_ep EXCEPT ![p] = IF back THEN NoEndpoint ELSE oe]
    /\ fails' = [fails EXCEPT ![p] = IF back THEN 0 ELSE f]
    /\ ret' = [ret EXCEPT ![p] = IF back THEN ConnectResult(res) ELSE "none"]

\* bug: connect takes the guard on entry and keeps it over the retry loop
CallConnectHoldingLock(p, rm) ==
    /\ pc[p] = "idle"
    /\ LockAvailable(lock)
    /\ lock' = p
    /\ LET next == LoopPc(rm, rm, NoEndpoint) IN
        /\ ConnectGoes(p, next, rm, rm, NoEndpoint, 0, "none")
        /\ dials' = [dials EXCEPT ![p] = IF next = "c_dial" THEN 1 ELSE 0]
    /\ op' = [op EXCEPT ![p] = "connect"]
    /\ r' = [r EXCEPT ![p] = "none"]
    /\ e' = [e EXCEPT ![p] = NoEndpoint]
    /\ m' = [m EXCEPT ![p] = "none"]
    /\ overlap' = (overlap \/ \E q \in Callers \ {p} : pc[q] \in ConnectPcs)
    /\ UNCHANGED <<addr_ok, slot, nextEp>>

\* connect(opt) is called and runs to its first suspension point
CallConnect(p, rm) ==
    /\ pc[p] = "idle"
    /\ LET next == LoopPc(rm, rm, NoEndpoint) IN
        /\ ConnectGoes(p, next, rm, rm, NoEndpoint, 0, "none")
        /\ dials' = [dials EXCEPT ![p] = IF next = "c_dial" THEN 1 ELSE 0]
    /\ op' = [op EXCEPT ![p] = "connect"]
    /\ r' = [r EXCEPT ![p] = "none"]
    /\ e' = [e EXCEPT ![p] = NoEndpoint]
    /\ m' = [m EXCEPT ![p] = "none"]
    /\ overlap' = (overlap \/ \E q \in Callers \ {p} : pc[q] \in ConnectPcs)
    /\ UNCHANGED <<addr_ok, slot, lock, nextEp>>

\* the dial returns res: Ok(e) sets opt_ep and leaves the loop, Err sleeps
DialReturns(p, res) ==
    /\ pc[p] = "c_dial"
    /\ res = "OkSome" => nextEp <= MaxEndpoints
    /\ r' = [r EXCEPT ![p] = res]
    /\ LET oe == IF res = "OkSome" THEN nextEp ELSE NoEndpoint
           f == IF res = "Err" THEN fails[p] + 1 ELSE fails[p] IN
        IF BreaksLoop(res)
        THEN ConnectGoes(p, ExitPc(oe), retry_max[p], n[p], oe, f, res)
        ELSE ConnectGoes(p, "c_sleep", retry_max[p], n[p], opt_ep[p], f, res)
    /\ nextEp' = IF res = "OkSome" THEN nextEp + 1 ELSE nextEp
    /\ UNCHANGED <<addr_ok, slot, lock, overlap, op, dials, e, m>>

\* the retry sleep ends; n is decremented and the loop head runs again
SleepReturns(p) ==
    /\ pc[p] = "c_sleep"
    /\ LET k == Decrement(n[p])
           next == LoopPc(retry_max[p], k, opt_ep[p]) IN
        /\ next = "c_dial" => dials[p] < MaxDials
        /\ ConnectGoes(p, next, retry_max[p], k, opt_ep[p], fails[p], r[p])
        /\ dials' = [dials EXCEPT ![p] = IF next = "c_dial" THEN @ + 1 ELSE @]
    /\ UNCHANGED <<shared, op, r, e, m>>

\* connect gets the mutex for its final write
ConnectLocks(p) ==
    /\ pc[p] = "c_lock"
    /\ LockAvailable(lock)
    /\ lock' = p
    /\ pc' = [pc EXCEPT ![p] = "c_cs"]
    /\ UNCHANGED <<addr_ok, slot, nextEp, overlap, op, connLocals, e, m, ret>>

\* *guard = Some(e); the guard is dropped; Ok(())
ConnectWrites(p) ==
    /\ pc[p] = "c_cs"
    /\ slot' = Written(slot, opt_ep[p])
    /\ lock' = NoHolder
    /\ ConnectGoes(p, "idle", retry_max[p], n[p], opt_ep[p], fails[p], r[p])
    /\ UNCHANGED <<addr_ok, nextEp, overlap, op, r, dials, e, m>>

\* bug: an operation on an empty slot reports success
NetNotConnectedAsOk == "Ok"

\* Err(ET::NetNotConnected)
NetNotConnected == "NotConnected"

\* bug: the Endpoint's error is dropped and the operation reports success
PropagatedSwallowed(res) == "Ok"

\* the `?` on the Endpoint's result: Ok goes on to Ok(..), Err(x) is returned as it is
Propagated(res) == res

\* ---- ClientInner::send ----
CallSend(p) ==
    /\ pc[p] = "idle"
    /\ pc' = [pc EXCEPT ![p] = "s_lock"]
    /\ op' = [op EXCEPT ![p] = "send"]
    /\ ret' = [ret EXCEPT ![p] = "none"]
    /\ ResetLocals(p)
    /\ UNCHANGED shared

SendLocks(p) ==
    /\ pc[p] = "s_lock"
    /\ LockAvailable(lock)
    /\ lock' = p
    /\ pc' = [pc EXCEPT ![p] = "s_cs"]
    /\ UNCHANGED <<addr_ok, slot, nextEp, overlap, op, connLocals, e, m, ret>>

\* if let Some(e) = &(*guard) { e.send(message).await ... } else { Err(NetNotConnected) }
SendReads(p) ==
    /\ pc[p] = "s_cs"
    /\ e' = [e EXCEPT ![p] = slot]
    /\ IF slot # NoEndpoint
       THEN /\ pc' = [pc EXCEPT ![p] = "s_op"]
            /\ UNCHANGED <<lock, ret>>
       ELSE /\ pc' = [pc EXCEPT ![p] = "idle"]
            /\ lock' = NoHolder
            /\ ret' = [ret EXCEPT ![p] = NetNotConnected]
    /\ UNCHANGED <<addr_ok, slot, nextEp, overlap, op, connLocals, m>>

\* e.send(message).await completes with res
SendCompletes(p, res) ==
    /\ pc[p] = "s_op"
    /\ pc' = [pc EXCEPT ![p] = "s_ret"]
    /\ m' = [m EXCEPT ![p] = res]
    /\ UNCHANGED <<shared, op, connLocals, e, ret>>

\* bug: a transport error makes send drop the Endpoint from the slot
SendReturnsClearing(p) ==
    /\ pc[p] = "s_ret"
    /\ pc' = [pc EXCEPT ![p] = "idle"]
    /\ slot' = IF m[p] = "TransportErr" THEN NoEndpoint ELSE slot
    /\ lock' = NoHolder
    /\ ret' = [ret EXCEPT ![p] = Propagated(m[p])]
    /\ e' = [e EXCEPT ![p] = NoEndpoint]
    /\ m' = [m EXCEPT ![p] = "none"]
    /\ UNCHANGED <<addr_ok, nextEp, overlap, op, connLocals>>

\* `?` returns the error, else Ok(()); the guard is dropped on return
SendReturns(p) ==
    /\ pc[p] = "s_ret"
    /\ pc' = [pc EXCEPT ![p] = "idle"]
    /\ lock' = NoHolder
    /\ ret' = [ret EXCEPT ![p] = Propagated(m[p])]
    /\ e' = [e EXCEPT ![p] = NoEndpoint]
    /\ m' = [m EXCEPT ![p] = "none"]
    /\ UNCHANGED <<addr_ok, slot, nextEp, overlap, op, connLocals>>

\* ---- ClientInner::recv ----
CallRecv(p) ==
    /\ pc[p] = "idle"
    /\ pc' = [pc EXCEPT ![p] = "r_lock"]
    /\ op' = [op EXCEPT ![p] = "recv"]
    /\ ret' = [ret EXCEPT ![p] = "none"]
    /\ ResetLocals(p)
    /\ UNCHANGED shared

RecvLocks(p) ==
    /\ pc[p] = "r_lock"
    /\ LockAvailable(lock)
    /\ lock' = p
    /\ pc' = [pc EXCEPT ![p] = "r_cs"]
    /\ UNCHANGED <<addr_ok, slot, nextEp, overlap, op, connLocals, e, m, ret>>

\* bug: the guard is dropped before the Endpoint's recv is awaited
RecvReadsUnlocked(p) ==
    /\ pc[p] = "r_cs"
    /\ e' = [e EXCEPT ![p] = slot]
    /\ lock' = NoHolder
    /\ IF slot # NoEndpoint
       THEN /\ pc' = [pc EXCEPT ![p] = "r_op"]
            /\ UNCHANGED ret
       ELSE /\ pc' = [pc EXCEPT ![p] = "idle"]
            /\ ret' = [ret EXCEPT ![p] = NetNotConnected]
    /\ UNCHANGED <<addr_ok, slot, nextEp, overlap, op, connLocals, m>>

\* if let Some(e) = &(*guard) { e.recv().await ... } else { Err(NetNotConnected) }
RecvReads(p) ==
    /\ pc[p] = "r_cs"
    /\ e' = [e EXCEPT ![p] = slot]
    /\ IF slot # NoEndpoint
       THEN /\ pc' = [pc EXCEPT ![p] = "r_op"]
            /\ UNCHANGED <<lock, ret>>
       ELSE /\ pc' = [pc EXCEPT ![p] = "idle"]
            /\ lock' = NoHolder
            /\ ret' = [ret EXCEPT ![p] = NetNotConnected]
    /\ UNCHANGED <<addr_ok, slot, nextEp, overlap, op, connLocals, m>>

\* e.recv().await completes with res
RecvCompletes(p, res) ==
    /\ pc[p] = "r_op"
    /\ pc' = [pc EXCEPT ![p] = "r_ret"]
    /\ m' = [m EXCEPT ![p] = res]
    /\ UNCHANGED <<shared, op, connLocals, e, ret>>

\* let m = e.recv().await?; Ok(m); the guard is dropped on return
RecvReturns(p) ==
    /\ pc[p] = "r_ret"
    /\ pc' = [pc EXCEPT ![p] = "idle"]
    /\ lock' = NoHolder
    /\ ret' = [ret EXCEPT ![p] = Propagated(m[p])]
    /\ e' = [e EXCEPT ![p] = NoEndpoint]
    /\ m' = [m EXCEPT ![p] = "none"]
    /\ UNCHANGED <<addr_ok, slot, nextEp, overlap, op, connLocals>>

\* ---- ClientInner::is_connected ----
CallIsConnected(p) ==
    /\ pc[p] = "idle"
    /\ pc' = [pc EXCEPT ![p] = "i_lock"]
    /\ op' = [op EXCEPT ![p] = "is_connected"]
    /\ ret' = [ret EXCEPT ![p] = "none"]
    /\ ResetLocals(p)
    /\ UNCHANGED shared

IsConnectedLocks(p) ==
    /\ pc[p] = "i_lock"
    /\ LockAvailable(lock)
    /\ lock' = p
    /\ pc' = [pc EXCEPT ![p] = "i_cs"]
    /\ UNCHANGED <<addr_ok, slot, nextEp, overlap, op, connLocals, e, m, ret>>

\* g.is_some(); the guard is dropped
IsConnectedReturns(p) ==
    /\ pc[p] = "i_cs"
    /\ pc' = [pc EXCEPT ![p] = "idle"]
    /\ lock' = NoHolder
    /\ ret' = [ret EXCEPT ![p] = IF slot # NoEndpoint THEN "true" ELSE "false"]
    /\ UNCHANGED <<addr_ok, slot, nextEp, overlap, op, connLocals, e, m>>

\* ---- impl HandleEvent for Handler ----
\* the Node calls these on its events; Handler has no fields and no reference
\* to the ClientInner

\* async fn on_accepted(&self, _) -> Res<()> { Ok(()) }
on_accepted == UNCHANGED vars

\* bug: the callback stores the Endpoint it is handed
on_connectedStores ==
    /\ nextEp <= MaxEndpoints
    /\ slot' = nextEp
    /\ nextEp' = nextEp + 1
    /\ UNCHANGED <<addr_ok, lock, overlap, pc, op, connLocals, e, m, ret>>

\* async fn on_connected(&self, _, _) -> Res<()> { Ok(()) }
on_connected == UNCHANGED vars

\* async fn on_error(&self, _) {}
on_error == UNCHANGED vars

\* async fn on_stop(&self) {}
on_stop == UNCHANGED vars

Next ==
    \/ \E p \in Callers :
            \/ \E rm \in 0..MaxRetry : CallConnect(p, rm)
            \/ \E res \in DialResults : DialReturns(p, res)
            \/ SleepReturns(p)
            \/ ConnectLocks(p)
            \/ ConnectWrites(p)
            \/ CallSend(p)
            \/ SendLocks(p)
            \/ SendReads(p)
            \/ \E res \in EndpointResults : SendCompletes(p, res)
            \/ SendReturns(p)
            \/ CallRecv(p)
            \/ RecvLocks(p)
            \/ RecvReads(p)
            \/ \E res \in EndpointResults : RecvCompletes(p, res)
            \/ RecvReturns(p)
            \/ CallIsConnected(p)
            \/ IsConnectedLocks(p)
            \/ IsConnectedReturns(p)
    \/ on_accepted
    \/ on_connected
    \/ on_error
    \/ on_stop

Spec == Init /\ [][Next]_vars

\* the runs in which every connect has no retry budget and every dial fails
RetryingNext ==
    \E p \in Callers :
        \/ CallConnect(p, RetryForever)
        \/ DialReturns(p, "Err")
        \/ SleepReturns(p)
        \/ CallSend(p)
        \/ SendLocks(p)
        \/ SendReads(p)
        \/ CallRecv(p)
        \/ RecvLocks(p)
        \/ RecvReads(p)
        \/ CallIsConnected(p)
        \/ IsConnectedLocks(p)
        \/ IsConnectedReturns(p)

\* tokio's Mutex hands the lock to its waiters in FIFO order, so a waiter that
\* could be served again and again is served; a task that holds the guard and
\* has no await before its return does return
Fairness ==
    \A p \in Callers :
        /\ SF_vars(SendLocks(p)) /\ SF_vars(RecvLocks(p)) /\ SF_vars(IsConnectedLocks(p))
        /\ WF_vars(SendReads(p)) /\ WF_vars(RecvReads(p)) /\ WF_vars(IsConnectedReturns(p))

RetryingSpec == Init /\ [][RetryingNext]_vars /\ Fairness

\* ---- vocabulary of the properties ----

\* p took a step (every action changes the pc of exactly one caller)
Steps(p) == pc'[p] # pc[p]

\* the Endpoint of the most recent successful dial made on the handle, or
\* NoEndpoint when no dial has returned one
LastDialled == nextEp - 1

\* p's connect has returned (and p has called nothing since)
ConnectReturned(p) == pc[p] = "idle" /\ op[p] = "connect"

\* p's connect has returned and every dial of it failed
ConnectExhausted(p) == ConnectReturned(p) /\ r[p] = "Err"

TypeOK ==
    /\ addr_ok \in BOOLEAN
    /\ slot \in {NoEndpoint} \cup Endpoints
    /\ lock \in {NoHolder} \cup Callers
    /\ nextEp \in 1..(MaxEndpoints + 1)
    /\ overlap \in BOOLEAN
    /\ pc \in [Callers -> {"idle", "panicked", "c_dial", "c_sleep", "c_lock", "c_cs",
                           "s_lock", "s_cs", "s_op", "s_ret",
                           "r_lock", "r_cs", "r_op", "r_ret",
                           "i_lock", "i_cs"}]
    /\ op \in [Callers -> {"none", "connect", "send", "recv", "is_connected"}]
    /\ retry_max \in [Callers -> 0..MaxRetry]
    /\ n \in [Callers -> 0..MaxRetry]
    /\ opt_ep \in [Callers -> {NoEndpoint} \cup Endpoints]
    /\ r \in [Callers -> {"none"} \cup DialResults]
    /\ dials \in [Callers -> 0..MaxDials]
    /\ fails \in [Callers -> 0..MaxDials]
    /\ e \in [Callers -> {NoEndpoint} \cup Endpoints]
    /\ m \in [Callers -> {"none"} \cup EndpointResults]
    /\ ret \in [Callers -> {"none", "Ok", "NotConnected", "TransportErr", "true", "false"}]

\* ---- C1 ----
C1_State(p) ==
    /\ (pc[p] \in ConnectPcs /\ retry_max[p] > 0) => dials[p] <= retry_max[p]
    /\ ConnectExhausted(p) =>
          /\ ret[p] = "Ok"
          /\ dials[p] \in 1..MaxRetry
          /\ (LastDialled = NoEndpoint =>
                /\ slot = NoEndpoint
                /\ \A q \in Callers :
                      (pc[q] = "idle" /\ op[q] = "send") => ret[q] = "NotConnected")

C1_Step(p) ==
    (pc[p] = "c_sleep" /\ retry_max[p] > 0 /\ Steps(p)) =>
        /\ fails[p] = dials[p]
        /\ pc'[p] = "idle" <=> dials[p] = retry_max[p]
        /\ pc'[p] = "idle" => (ret'[p] = "Ok" /\ dials'[p] = dials[p] /\ slot' = slot)

\* C1: a connect with retry_max = N > 0 whose every dial fails never makes
\* more than N dials, returns after the delay of its N-th failed dial and not
\* before, and returns Ok; on a handle on which no dial has ever returned an
\* Endpoint (the slot was empty and no other connect got one) the slot is
\* then empty, and a send that has returned there returned NotConnected.
C1_BoundedRetryAllFail ==
    /\ [](\A p \in Callers : C1_State(p))
    /\ [][\A p \in Callers : C1_Step(p)]_vars

\* a connect returned after two failed dials, the slot is empty and another
\* caller's send has come back
C1_Witness ==
    \E p, q \in Callers :
        /\ ConnectExhausted(p) /\ dials[p] = 2 /\ ret[p] = "Ok"
        /\ slot = NoEndpoint /\ LastDialled = NoEndpoint
        /\ pc[q] = "idle" /\ op[q] = "send" /\ ret[q] = "NotConnected"

\* ---- C2 ----
C2_State(p) ==
    /\ (pc[p] \in ConnectPcs /\ retry_max[p] = RetryForever) =>
          /\ n[p] = 0
          /\ pc[p] \in {"c_lock", "c_cs"} => r[p] = "OkSome"
    /\ ConnectReturned(p) => (dials[p] >= 1 /\ r[p] # "none")

C2_Step(p) ==
    (pc[p] \in ConnectPcs /\ retry_max[p] = RetryForever /\ Steps(p)) =>
        /\ pc[p] = "c_dial" => (r'[p] = "Err" <=> pc'[p] = "c_sleep")
        /\ pc[p] = "c_sleep" => (pc'[p] = "c_dial" /\ n'[p] = 0)
        /\ pc[p] \in {"c_dial", "c_sleep"} => slot' = slot
        /\ pc'[p] = "idle" => r'[p] \in {"OkSome", "OkNone"}

\* C2: a connect with retry_max = 0 does not return while its dials fail: a
\* failed dial is always followed by the delay and the delay by the next
\* dial, n stays 0, the call returns only after a dial that returned Ok, and
\* it reaches its slot write only after a dial that returned an Endpoint.
C2_ForeverRetries ==
    /\ [](\A p \in Callers : C2_State(p))
    /\ [][\A p \in Callers : C2_Step(p)]_vars

\* an unbounded connect is at its third dial after two failures
C2_Witness ==
    \E p \in Callers :
        /\ retry_max[p] = RetryForever
        /\ pc[p] = "c_dial" /\ dials[p] = 3 /\ fails[p] = 2 /\ slot = NoEndpoint

\* ---- C3 ----
C3_State(p) ==
    (op[p] = "connect" /\ r[p] = "OkSome") =>
        /\ pc[p] \in {"c_lock", "c_cs", "idle"}
        /\ pc[p] # "idle" =>
              /\ opt_ep[p] # NoEndpoint
              /\ dials[p] = fails[p] + 1
              /\ retry_max[p] > 0 => dials[p] <= retry_max[p]
        /\ pc[p] = "idle" => (ret[p] = "Ok" /\ slot # NoEndpoint)

C3_Step(p) ==
    /\ (pc[p] = "c_dial" /\ Steps(p) /\ r'[p] = "OkSome") =>
          (opt_ep'[p] = nextEp /\ pc'[p] = "c_lock")
    /\ (pc[p] \in {"c_lock", "c_cs"}) => (dials'[p] = dials[p] /\ r'[p] = "OkSome")
    /\ (pc[p] = "c_cs" /\ Steps(p)) =>
          (pc'[p] = "idle" /\ slot' = opt_ep[p] /\ ret'[p] = "Ok")

\* C3: when the k-th dial of a connect returns an Endpoint after k-1 failed
\* dials (k <= retry_max unless retry_max = 0), the call dials no more, goes
\* on to write exactly that Endpoint into the slot and returns Ok with the
\* slot non-empty.
C3_SuccessStopsRetry ==
    /\ [](\A p \in Callers : C3_State(p))
    /\ [][\A p \in Callers : C3_Step(p)]_vars

\* a connect returned after one failed and one successful dial
C3_Witness ==
    \E p \in Callers :
        ConnectReturned(p) /\ r[p] = "OkSome" /\ dials[p] = 2 /\ slot # NoEndpoint

\* ---- C4 ----
C4_Step(p) ==
    (pc[p] \in {"s_cs", "r_cs"} /\ slot = NoEndpoint /\ Steps(p)) =>
        (pc'[p] = "idle" /\ ret'[p] = "NotConnected" /\ lock' = NoHolder)

\* C4: a send or recv that reads an empty slot returns NotConnected at once,
\* and no Endpoint operation is ever in progress without an Endpoint.
C4_EmptySlotNotConnected ==
    /\ [](\A p \in Callers : pc[p] \in EndpointOpPcs => e[p] # NoEndpoint)
    /\ [][\A p \in Callers : C4_Step(p)]_vars

\* a recv returned NotConnected while another caller's connect is retrying
C4_Witness ==
    \E p, q \in Callers :
        /\ pc[p] = "idle" /\ op[p] = "recv" /\ ret[p] = "NotConnected"
        /\ pc[q] = "c_sleep" /\ slot = NoEndpoint

\* ---- C5 ----
\* C5: every connect that has returned, returned Ok, whatever its dials did.
C5_ConnectReturnsOk ==
    \A p \in Callers : ConnectReturned(p) => ret[p] = "Ok"

\* a connect returned Ok after its only dial failed
C5_Witness ==
    \E p \in Callers :
        ConnectExhausted(p) /\ dials[p] = 1 /\ ret[p] = "Ok"

\* ---- C6 ----
\* C6: no step of a connect that holds no Endpoint from a dial (its dials
\* failed or returned Ok(None)) changes the slot: whatever the slot held
\* when such a call began to return, it holds after the return.
C6_FailedConnectKeepsSlot ==
    [][\A p \in Callers :
          (op[p] = "connect" /\ opt_ep[p] = NoEndpoint /\ Steps(p)) => slot' = slot]_vars

\* a connect exhausted its retries on a handle whose slot holds an Endpoint
C6_Witness ==
    \E p \in Callers :
        ConnectExhausted(p) /\ dials[p] = 2 /\ slot # NoEndpoint

\* ---- C7 ----
C7_Step(p) ==
    (pc[p] = "c_cs" /\ Steps(p)) =>
        /\ slot' = opt_ep[p]
        /\ slot' # slot
        /\ \A q \in Callers : pc'[q] \notin EndpointOpPcs

\* C7: the write of a successful connect replaces the slot's Endpoint A by
\* the call's own Endpoint B; no Endpoint operation is in progress at that
\* moment, and every Endpoint operation in progress at any time is on the
\* Endpoint the slot holds.
C7_ReplacedEndpointUnused ==
    /\ [](\A q \in Callers : pc[q] \in EndpointOpPcs => e[q] = slot)
    /\ [][\A p \in Callers : C7_Step(p)]_vars

\* the slot held Endpoint 1, a later connect stored Endpoint 2 and another
\* caller's send is now in progress on Endpoint 2
C7_Witness ==
    \E p, q \in Callers :
        /\ ConnectReturned(p) /\ r[p] = "OkSome" /\ slot = 2
        /\ pc[q] = "s_op" /\ e[q] = 2

\* ---- C8 ----
\* C8: at most one caller is inside the slot's critical section, it is the
\* holder of the mutex, and the slot is empty or an Endpoint a dial returned.
C8_MutualExclusion ==
    /\ Cardinality({p \in Callers : pc[p] \in CriticalPcs}) <= 1
    /\ \A p \in Callers : pc[p] \in CriticalPcs <=> lock = p
    /\ slot \in 0..LastDialled

\* one caller is in the critical section of connect while another waits for the mutex
C8_Witness ==
    \E p, q \in Callers :
        /\ pc[p] = "c_cs" /\ lock = p /\ slot # NoEndpoint
        /\ pc[q] \in {"s_lock", "r_lock", "i_lock"}

\* ---- C9 ----
C9_ReturnStep(p) == pc[p] \in ConnectPcs /\ pc'[p] = "idle"

\* C9 as stated: whenever a connect returns, also one that ran concurrently
\* with another, the slot holds the most recent successful dial's Endpoint,
\* or nothing if no dial has succeeded.
C9_Original ==
    [][\A p \in Callers : C9_ReturnStep(p) => slot' = LastDialled']_vars

C9_IsConnectedStep(p) ==
    (pc[p] = "i_cs" /\ Steps(p)) =>
        ret'[p] = (IF slot # NoEndpoint THEN "true" ELSE "false")

\* C9 (amended): as long as no two connect calls have overlapped, whenever no
\* connect is in progress the slot holds the most recent successful dial's
\* Endpoint, or nothing if no dial has succeeded; in every case the slot is
\* empty or an Endpoint a dial returned, and is_connected returns true
\* exactly when the slot it reads is not empty.
C9_SequentialConnects ==
    /\ []((~overlap /\ \A p \in Callers : pc[p] \notin ConnectPcs) => slot = LastDialled)
    /\ [](slot \in 0..LastDialled)
    /\ [][\A p \in Callers : C9_IsConnectedStep(p)]_vars

\* two connects in a row, never overlapping, the second stored Endpoint 2,
\* and is_connected has returned true
C9_Witness ==
    \E p, q \in Callers :
        /\ ~overlap /\ ConnectReturned(p) /\ r[p] = "OkSome"
        /\ slot = 2 /\ LastDialled = 2
        /\ pc[q] = "idle" /\ op[q] = "is_connected" /\ ret[q] = "true"

\* ---- C10 ----
\* C10: while a caller is suspended inside the Endpoint's send or recv it
\* does not hold the slot's mutex.
C10_LockFreeDuringEndpointOp ==
    \A p \in Callers : pc[p] \in EndpointOpPcs => lock # p

\* ---- C11 ----
C11_State(q) ==
    pc[q] \in EndpointOpPcs =>
        /\ lock = q
        /\ \A p \in Callers \ {q} : pc[p] \notin {"c_cs", "i_cs"}
        /\ \A p \in Callers : pc[p] = "c_lock" => ret[p] = "none"

C11_Step(p, q) ==
    (pc[q] \in EndpointOpPcs /\ pc'[q] = pc[q] /\ pc[p] \in {"c_lock", "i_lock"}) =>
        (pc'[p] = pc[p] /\ ret'[p] = "none" /\ slot' = slot)

\* C11: while a send or recv is suspended in the Endpoint's operation it
\* holds the mutex, so for as long as that operation has not completed a
\* connect waiting with its new Endpoint neither writes the slot nor returns,
\* and an is_connected waiting for the mutex does not return either.
C11_ConnectWaitsForEndpointOp ==
    /\ [](\A q \in Callers : C11_State(q))
    /\ [][\A p, q \in Callers : C11_Step(p, q)]_vars

\* a recv is in progress on Endpoint 1 while a connect that dialled
\* Endpoint 2 waits for the mutex
C11_Witness ==
    \E p, q \in Callers :
        /\ pc[q] = "r_op" /\ e[q] = 1 /\ slot = 1
        /\ pc[p] = "c_lock" /\ opt_ep[p] = 2 /\ ret[p] = "none"

\* ---- C12 ----
SendRecvPcs == {"s_cs", "s_op", "s_ret", "r_cs", "r_op", "r_ret"}

\* the pc a send / recv is at after one more step of the path that found an Endpoint
C12_After(at) ==
    CASE at = "s_cs" -> "s_op" [] at = "s_op" -> "s_ret" [] at = "s_ret" -> "idle"
      [] at = "r_cs" -> "r_op" [] at = "r_op" -> "r_ret" [] at = "r_ret" -> "idle"

C12_Step(p) ==
    (pc[p] \in SendRecvPcs /\ slot # NoEndpoint) =>
        /\ slot' = slot
        /\ Steps(p) =>
              /\ pc'[p] = C12_After(pc[p])
              /\ pc[p] \in {"s_cs", "r_cs"} => e'[p] = slot
              /\ pc[p] \in EndpointOpPcs => (m'[p] \in EndpointResults /\ e'[p] = e[p])
              /\ pc[p] \in {"s_ret", "r_ret"} => ret'[p] = m[p]

\* C12: a send or recv that reads a non-empty slot starts the operation of
\* the Endpoint it read, once: when the operation completes the call returns
\* what the Endpoint handed back (Ok or the transport error) without starting
\* it again, and from the read to the return the slot keeps that Endpoint.
C12_EndpointResultPassedOn ==
    /\ [](\A p \in Callers :
            pc[p] \in {"s_op", "s_ret", "r_op", "r_ret"} => (e[p] # NoEndpoint /\ slot = e[p]))
    /\ [][\A p \in Callers : C12_Step(p)]_vars

\* a send returned the Endpoint's transport error and the slot still holds
\* the Endpoint
C12_Witness ==
    \E p \in Callers :
        /\ pc[p] = "idle" /\ op[p] = "send" /\ ret[p] = "TransportErr"
        /\ slot # NoEndpoint

\* ---- C13 ----
\* C13: a connect holds the mutex neither while a dial is pending nor during
\* the retry delay, so while connects without a retry budget keep failing
\* their dials every send or recv that waits for the mutex gets it and
\* returns NotConnected.
C13_EmptySlotAnswersWhileRetrying ==
    /\ [](\A q \in Callers : pc[q] \in {"c_dial", "c_sleep"} => lock # q)
    /\ \A p \in Callers :
          pc[p] \in {"s_lock", "r_lock"} ~> (pc[p] = "idle" /\ ret[p] = "NotConnected")

\* a send returned NotConnected while an unbounded connect is in the delay
\* after its second failed dial
C13_Witness ==
    \E p, q \in Callers :
        /\ pc[p] = "idle" /\ op[p] = "send" /\ ret[p] = "NotConnected"
        /\ pc[q] = "c_sleep" /\ retry_max[q] = RetryForever /\ fails[q] = 2

\* ---- C14 ----
\* p's connect returns in this step after its last dial failed
C14_ExhaustedReturn(p) == pc[p] \in ConnectPcs /\ pc'[p] = "idle" /\ r'[p] = "Err"

\* C14 as stated: when a connect that exhausted its retries returns (it is
\* then the most recently completed connect) the slot is empty.
C14_Original ==
    [][\A p \in Callers : C14_ExhaustedReturn(p) => slot' = NoEndpoint]_vars

C14_FirstWrite ==
    (slot = NoEndpoint /\ slot' # NoEndpoint) =>
        \E p \in Callers :
            /\ pc[p] = "c_cs" /\ r[p] = "OkSome" /\ slot' = opt_ep[p]
            /\ pc'[p] = "idle" /\ ret'[p] = "Ok"

\* C14 (amended): a non-empty slot holds an Endpoint that a dial returned
\* and that no connect is still waiting to store; the slot becomes non-empty
\* only by the write of a connect whose last dial succeeded, at that call's
\* return; and a connect that exhausted its retries returns with the slot as
\* it was, non-empty if an earlier connect had stored an Endpoint.
C14_NonEmptySlotWasConnected ==
    /\ [](slot # NoEndpoint =>
            /\ slot \in 1..LastDialled
            /\ \A p \in Callers : pc[p] = "c_lock" => opt_ep[p] # slot)
    /\ [][C14_FirstWrite]_vars
    /\ [][\A p \in Callers : C14_ExhaustedReturn(p) => slot' = slot]_vars

\* one connect stored Endpoint 1, another connect then exhausted its single
\* attempt, and the slot still holds Endpoint 1
C14_Witness ==
    \E p, q \in Callers :
        /\ ConnectExhausted(p) /\ dials[p] = 1
        /\ ConnectReturned(q) /\ r[q] = "OkSome"
        /\ slot = 1 /\ LastDialled = 1

\* ---- C15 ----
C15_Step(p) ==
    (pc[p] = "c_cs" /\ Steps(p)) =>
        /\ lock = p
        /\ opt_ep[p] # NoEndpoint
        /\ slot' = opt_ep[p]
        /\ \A q \in Callers \ {p} :
              /\ pc[q] # "c_cs"
              /\ pc[q] = "c_lock" => (pc'[q] = "c_lock" /\ opt_ep'[q] = opt_ep[q])

\* C15: connects that hold an Endpoint from their dial hold different ones;
\* each writes under the mutex, one at a time, and its write puts its own
\* Endpoint into the slot whatever the slot held and whichever dial came
\* first, while the other call keeps waiting with its Endpoint: the call
\* that gets the mutex last decides the slot, and a written slot is not empty.
C15_LastLockerWins ==
    /\ [](\A p, q \in Callers :
            (p # q /\ pc[p] \in {"c_lock", "c_cs"} /\ pc[q] \in {"c_lock", "c_cs"}) =>
                opt_ep[p] # opt_ep[q])
    /\ [][\A p \in Callers : C15_Step(p)]_vars

\* two overlapping connects have both returned after a successful dial and
\* the slot holds the Endpoint of the earlier dial
C15_Witness ==
    \E p, q \in Callers :
        /\ p # q /\ overlap
        /\ ConnectReturned(p) /\ r[p] = "OkSome"
        /\ ConnectReturned(q) /\ r[q] = "OkSome"
        /\ slot = 1 /\ LastDialled = 2

\* ---- C16 ----
\* p's last call was is_connected and it answered v
C16_Answered(p, v) == pc[p] = "idle" /\ op[p] = "is_connected" /\ ret[p] = v

\* C16: no step empties a slot that holds an Endpoint, whichever operation
\* takes it (a connect that exhausts its retries, a send or recv that gets a
\* transport error, is_connected); so an is_connected answer "true" stays
\* right, and no is_connected answers "false" while another's "true" stands.
C16_SlotStaysNonEmpty ==
    /\ [][slot # NoEndpoint => slot' # NoEndpoint]_vars
    /\ [](\A p \in Callers : C16_Answered(p, "true") => slot # NoEndpoint)
    /\ [][\A p, q \in Callers :
            (pc[p] = "i_cs" /\ Steps(p) /\ C16_Answered(q, "true")) => ret'[p] = "true"]_vars

\* is_connected answered true, then a send got a transport error, and the
\* slot still holds the Endpoint
C16_Witness ==
    \E p, q \in Callers :
        /\ C16_Answered(p, "true")
        /\ pc[q] = "idle" /\ op[q] = "send" /\ ret[q] = "TransportErr"
        /\ slot # NoEndpoint

\* ---- C17 ----
C17_State(p) ==
    /\ pc[p] = "c_dial" => dials[p] = fails[p] + 1
    /\ pc[p] = "c_sleep" => (dials[p] = fails[p] /\ r[p] = "Err")
    /\ (pc[p] = "c_dial" /\ retry_max[p] > 0) => n[p] = retry_max[p] - fails[p]
    /\ (pc[p] = "c_sleep" /\ retry_max[p] > 0) => n[p] = retry_max[p] - fails[p] + 1

C17_Step(p) ==
    /\ (pc[p] = "c_dial" /\ Steps(p)) =>
          /\ r'[p] = "Err" => (pc'[p] = "c_sleep" /\ fails'[p] = fails[p] + 1 /\ n'[p] = n[p])
          /\ r'[p] # "Err" => (pc'[p] \in {"c_lock", "idle"} /\ dials'[p] = dials[p])
    /\ (pc[p] = "c_sleep" /\ Steps(p)) =>
          /\ pc'[p] \in {"c_dial", "idle"}
          /\ pc'[p] = "c_dial" => dials'[p] = dials[p] + 1
          /\ (pc'[p] = "c_dial" /\ retry_max[p] > 0) => n'[p] = n[p] - 1
          /\ pc'[p] = "idle" => (retry_max[p] > 0 /\ n[p] = 1)

\* C17: in a connect every failed dial leads to the delay, also the last one
\* of a bounded budget, and the delay leads to the next dial or to the
\* return: one delay per failed dial; a dial that returns Ok leads to no
\* delay; with retry_max > 0 the counter n is retry_max minus the failed
\* dials whose delay has ended, one less after each.
C17_OneDelayPerFailedDial ==
    /\ [](\A p \in Callers : C17_State(p))
    /\ [][\A p \in Callers : C17_Step(p)]_vars

\* a connect with a budget of two is in the delay after its second failed dial
C17_Witness ==
    \E p \in Callers :
        pc[p] = "c_sleep" /\ retry_max[p] = 2 /\ fails[p] = 2 /\ n[p] = 1

\* ---- C18 ----
C18_Step(p) ==
    (pc[p] = "c_dial" /\ Steps(p) /\ r'[p] = "OkNone") =>
        /\ pc'[p] = "idle" /\ ret'[p] = "Ok"
        /\ dials'[p] = dials[p]
        /\ slot' = slot /\ lock' = lock

\* C18: a dial that returns Ok without an Endpoint ends the connect at once:
\* no delay, no further dial, no lock and no write, the slot as it was, and
\* the call returns Ok.
C18_OkNoneEndsConnect ==
    /\ [](\A p \in Callers :
            (op[p] = "connect" /\ r[p] = "OkNone") => (pc[p] = "idle" /\ ret[p] = "Ok"))
    /\ [][\A p \in Callers : C18_Step(p)]_vars

\* a connect returned after a failed dial and a dial that returned Ok(None),
\* on a handle whose slot holds an Endpoint
C18_Witness ==
    \E p \in Callers :
        ConnectReturned(p) /\ r[p] = "OkNone" /\ dials[p] = 2 /\ slot # NoEndpoint

\* ---- C19 ----
\* the slot changes in this step by the final write of p's connect
C19_ConnectWrite(p) ==
    /\ pc[p] = "c_cs" /\ op[p] = "connect" /\ r[p] = "OkSome"
    /\ opt_ep[p] \in 1..LastDialled
    /\ slot' = opt_ep[p]
    /\ pc'[p] = "idle"

\* C19: every step that changes the slot is the final write of a connect
\* whose dial returned an Endpoint, and stores that Endpoint; no step of
\* is_connected, send or recv and no Handler callback changes it; so the
\* slot is empty or holds an Endpoint one of the handle's dials returned.
C19_OnlyConnectWritesSlot ==
    /\ [][slot' # slot => \E p \in Callers : C19_ConnectWrite(p)]_vars
    /\ [][\A p \in Callers :
            (op[p] \in {"is_connected", "send", "recv"} /\ Steps(p)) => slot' = slot]_vars
    /\ [](slot = NoEndpoint \/ slot \in 1..LastDialled)

\* the slot holds the Endpoint a connect stored, after a recv on it came back
\* and an is_connected answered true
C19_Witness ==
    \E p, q \in Callers :
        /\ slot = 1 /\ LastDialled = 1
        /\ pc[p] = "idle" /\ op[p] = "recv" /\ ret[p] = "Ok"
        /\ pc[q] = "idle" /\ op[q] = "is_connected" /\ ret[q] = "true"

\* ---- C20 ----
C20_State(p) ==
    /\ pc[p] = "panicked" => (~addr_ok /\ op[p] = "connect")
    /\ (~addr_ok /\ op[p] = "connect") =>
          /\ pc[p] = "panicked"
          /\ dials[p] = 0 /\ r[p] = "none"
          /\ ret[p] = "none"

C20_Step(p) ==
    /\ (~addr_ok /\ Steps(p) /\ op'[p] = "connect") =>
          (pc'[p] = "panicked" /\ slot' = slot /\ lock' = lock /\ nextEp' = nextEp)
    /\ pc[p] = "panicked" => pc'[p] = "panicked"

\* C20: on a handle whose address does not parse, every connect, whatever
\* its retry_max, panics at the parse of its first loop iteration: it has
\* issued no dial, it never returns a value, and it leaves the slot and the
\* mutex as they were; a connect panics in no other case.
C20_BadAddressPanics ==
    /\ [](\A p \in Callers : C20_State(p))
    /\ [](~addr_ok => (slot = NoEndpoint /\ LastDialled = NoEndpoint))
    /\ [][\A p \in Callers : C20_Step(p)]_vars

\* two connects, one without a retry budget and one with a budget of two,
\* have panicked on the unparseable address
C20_Witness ==
    \E p, q \in Callers :
        /\ ~addr_ok
        /\ pc[p] = "panicked" /\ retry_max[p] = RetryForever
        /\ pc[q] = "panicked" /\ retry_max[q] = 2
        /\ slot = NoEndpoint

====
